---- MODULE Spec2Model ----
(***************************************************************************)
(* Model of src/src/media/streaming.rs (crunchyroll-rs): resolution of a   *)
(* Stream into HLS / MPEG-DASH variants, expansion of a variant into its   *)
(* segments, and decryption / writing of one segment.                      *)
(*                                                                         *)
(* Every call is modelled as a small state machine whose steps are cut at  *)
(* the await points of the async function (the executor's request_raw()).  *)
(* Option<T> is modelled as a sequence of length 0 (None) or 1 (Some(x)).  *)
(* Result<T> is modelled as a record with the fields                       *)
(*   tag ("Ok" | "Err" | "Panic"), value, kind, message, content, url.     *)
(***************************************************************************)
EXTENDS Integers, Sequences, FiniteSets, TLC

VARIABLES
    op,        \* the function that was called ("none" before the call)
    pc,        \* position inside the call
    variants,  \* Stream.variants : Locale -> raw streams
    hardsub,   \* the hardsub argument : Option<Locale>
    requests,  \* urls handed to executor.get(..).request_raw(), in order
    response,  \* what the last request_raw() gave back
    result,    \* what the call returned (NoResult while it is running)
    adaption,  \* the adaptation set from_mpeg_mpd_representations works on
    variant,   \* the VariantData segments() is called on
    playlist,  \* hls_segments: media_playlist.segments
    segments,  \* hls_segments: the local `segments`
    key,       \* hls_segments: the local `key`
    segment,   \* the VariantSegment write_to is called on
    sink       \* write_to: the bytes the writer `w` has taken

vars ==
    <<op, pc, variants, hardsub, requests, response, result, adaption, variant,
      playlist, segments, key, segment, sink>>

----------------------------------------------------------------------------
(* Option and Result *)

None == <<>>

Some(x) == <<x>>

IsSome(o) == Len(o) = 1

Option(S) == {None} \cup {Some(x) : x \in S}

NoResult ==
    [tag |-> "None", value |-> <<>>, kind |-> "", message |-> "",
     content |-> "", url |-> ""]

Ok(v) ==
    [tag |-> "Ok", value |-> v, kind |-> "", message |-> "",
     content |-> "", url |-> ""]

\* Error::Input { message }
ErrInput(m) ==
    [tag |-> "Err", value |-> <<>>, kind |-> "Input", message |-> m,
     content |-> "", url |-> ""]

\* Error::Internal { message }
ErrInternal(m) ==
    [tag |-> "Err", value |-> <<>>, kind |-> "Internal", message |-> m,
     content |-> "", url |-> ""]

\* Error::Decode { message, content, url }
ErrDecode(m, c, u) ==
    [tag |-> "Err", value |-> <<>>, kind |-> "Decode", message |-> m,
     content |-> c, url |-> u]

\* the error request_raw() itself returns, propagated by `?`
ErrRequest(u) ==
    [tag |-> "Err", value |-> <<>>, kind |-> "Request", message |-> "request failed",
     content |-> "", url |-> u]

\* a panic (expect / index out of bounds) unwinds through the caller
Panic(m) ==
    [tag |-> "Panic", value |-> <<>>, kind |-> "", message |-> m,
     content |-> "", url |-> ""]

----------------------------------------------------------------------------
(* Stream.variants and the hardsub argument *)

\* Locale::Custom("") and Locale::Custom(":") are the two "no hardsub" keys
Locales == {"", ":", "en-US"}

\* a locale no stream set of the model has
HardsubLocales == Locales \cup {"fr-FR"}

HlsUrl(l) == "https://hls/" \o l \o "/master.m3u8"

DashUrl(l) == "https://dash/" \o l \o "/manifest.mpd"

\* the raw streams stored under locale l; h, d: is adaptive_hls / adaptive_dash set
RawStreams(l, h, d) ==
    [adaptive_hls  |-> IF h THEN Some([url |-> HlsUrl(l)]) ELSE None,
     adaptive_dash |-> IF d THEN Some([url |-> DashUrl(l)]) ELSE None]

\* every map from a subset of Locales to raw streams
VariantMaps ==
    { [l \in D |-> RawStreams(l, l \in H, l \in A)] :
        <<D, H, A>> \in { t \in (SUBSET Locales) \X (SUBSET Locales) \X (SUBSET Locales) :
                            t[2] \subseteq t[1] /\ t[3] \subseteq t[1] } }

----------------------------------------------------------------------------
(* Stream::hls_streaming_data, lines 37-88: the url it resolves *)

\* raw_streams.adaptive_hls.as_ref().ok_or(Input "no stream available")?.url
AdaptiveHlsUrl(raw_streams) ==
    IF IsSome(raw_streams.adaptive_hls)
    THEN Ok(raw_streams.adaptive_hls[1].url)
    ELSE ErrInput("no stream available")

\* mutant: the ":" key is looked up before the "" key
HlsMasterUrl_ColonFirst(vs, hs) ==
    IF IsSome(hs)
    THEN IF hs[1] \in DOMAIN vs
         THEN AdaptiveHlsUrl(vs[hs[1]])
         ELSE ErrInput("could not find any stream with hardsub locale '" \o hs[1] \o "'")
    ELSE IF ":" \in DOMAIN vs THEN AdaptiveHlsUrl(vs[":"])
    ELSE IF "" \in DOMAIN vs THEN AdaptiveHlsUrl(vs[""])
    ELSE ErrInternal("could not find supported stream")

HlsMasterUrl(vs, hs) ==
    IF IsSome(hs)
    THEN IF hs[1] \in DOMAIN vs
         THEN AdaptiveHlsUrl(vs[hs[1]])
         ELSE ErrInput("could not find any stream with hardsub locale '" \o hs[1] \o "'")
    ELSE IF "" \in DOMAIN vs THEN AdaptiveHlsUrl(vs[""])
    ELSE IF ":" \in DOMAIN vs THEN AdaptiveHlsUrl(vs[":"])
    ELSE ErrInternal("could not find supported stream")

(* Stream::dash_streaming_data, lines 113-141: the url it resolves *)

AdaptiveDashUrl(raw_streams) ==
    IF IsSome(raw_streams.adaptive_dash)
    THEN Ok(raw_streams.adaptive_dash[1].url)
    ELSE ErrInput("no stream available")

\* mutant: an absent hardsub locale falls back to the "" key
DashManifestUrl_Fallback(vs, hs) ==
    IF IsSome(hs) /\ hs[1] \in DOMAIN vs THEN AdaptiveDashUrl(vs[hs[1]])
    ELSE IF "" \in DOMAIN vs THEN AdaptiveDashUrl(vs[""])
    ELSE IF IsSome(hs)
    THEN ErrInput("could not find any stream with hardsub locale '" \o hs[1] \o "'")
    ELSE ErrInternal("could not find supported stream")

DashManifestUrl(vs, hs) ==
    IF IsSome(hs)
    THEN IF hs[1] \in DOMAIN vs
         THEN AdaptiveDashUrl(vs[hs[1]])
         ELSE ErrInput("could not find any stream with hardsub locale '" \o hs[1] \o "'")
    ELSE IF "" \in DOMAIN vs THEN AdaptiveDashUrl(vs[""])
    ELSE ErrInternal("could not find supported stream")

----------------------------------------------------------------------------
(* request_raw(): the executor is outside this file; a request either fails *)
(* or gives bytes, and the bytes either parse or do not                     *)

NoResponse == [tag |-> "None", raw |-> "", parsed |-> None]

FetchFailed == [tag |-> "Err", raw |-> "", parsed |-> None]

Bytes(raw, parsed) == [tag |-> "Bytes", raw |-> raw, parsed |-> parsed]

----------------------------------------------------------------------------
(* VariantData::from_hls_master, lines 251-296 *)

MaxMasterVariants == 1

\* m3u8_rs::VariantStream, the fields the code reads
MasterVariants ==
    [resolution : Option({[width |-> 1920, height |-> 1080]}),
     bandwidth  : {8000},
     frame_rate : Option({24}),
     codecs     : Option({"avc1.640028"}),
     uri        : {"https://hls/v/media.m3u8"}]

SeqsUpTo(S, n) == UNION {[1..k -> S] : k \in 0..n}

MasterPlaylists == SeqsUpTo(MasterVariants, MaxMasterVariants)

MasterResponses ==
    {FetchFailed, Bytes("not a playlist", None)}
        \cup {Bytes("#EXTM3U master", Some(m)) : m \in MasterPlaylists}

\* lines 265-280 (the build without __test_strict)
HlsVariantData(v) ==
    [resolution |-> IF IsSome(v.resolution) THEN v.resolution[1]
                    ELSE [width |-> 0, height |-> 0],
     bandwidth  |-> v.bandwidth,
     fps        |-> IF IsSome(v.frame_rate) THEN v.frame_rate[1] ELSE 0,
     codecs     |-> IF IsSome(v.codecs) THEN v.codecs[1] ELSE "",
     url        |-> [mode |-> "Hls", url |-> v.uri]]

FromHlsMasterResult(url, resp) ==
    IF resp.tag = "Err" THEN ErrRequest(url)
    ELSE IF ~IsSome(resp.parsed) THEN ErrDecode("parse error", resp.raw, url)
    ELSE Ok([i \in 1..Len(resp.parsed[1]) |-> HlsVariantData(resp.parsed[1][i])])

----------------------------------------------------------------------------
(* the calls on a Stream *)

Idle ==
    /\ response = NoResponse
    /\ result = NoResult
    /\ adaption = None
    /\ variant = None
    /\ playlist = <<>>
    /\ segments = <<>>
    /\ key = None
    /\ segment = None
    /\ sink = <<>>

InitResolve ==
    /\ op = "none"
    /\ pc = "start"
    /\ variants \in VariantMaps
    /\ hardsub \in Option(HardsubLocales)
    /\ requests = <<>>
    /\ Idle

\* hls_streaming_data up to its only await: the url is resolved and, unless that
\* failed, from_hls_master is entered and requests the master playlist
HlsStreamingData ==
    /\ pc = "start"
    /\ op' = "hls_streaming_data"
    /\ LET u == HlsMasterUrl(variants, hardsub) IN
         IF u.tag = "Ok"
         THEN /\ requests' = Append(requests, u.value)
              /\ pc' = "from_hls_master"
              /\ result' = result
         ELSE /\ requests' = requests
              /\ pc' = "done"
              /\ result' = u
    /\ UNCHANGED <<variants, hardsub, response, adaption, variant, playlist,
                   segments, key, segment, sink>>

\* from_hls_master after the await
FromHlsMaster ==
    /\ pc = "from_hls_master"
    /\ \E resp \in MasterResponses :
         /\ response' = resp
         /\ result' = FromHlsMasterResult(requests[Len(requests)], resp)
    /\ pc' = "done"
    /\ UNCHANGED <<op, variants, hardsub, requests, adaption, variant, playlist,
                   segments, key, segment, sink>>

\* dash_streaming_data up to its only await (line 146)
DashStreamingData ==
    /\ pc = "start"
    /\ op' = "dash_streaming_data"
    /\ LET u == DashManifestUrl(variants, hardsub) IN
         IF u.tag = "Ok"
         THEN /\ requests' = Append(requests, u.value)
              /\ pc' = "dash_mpd"
              /\ result' = result
         ELSE /\ requests' = requests
              /\ pc' = "done"
              /\ result' = u
    /\ UNCHANGED <<variants, hardsub, response, adaption, variant, playlist,
                   segments, key, segment, sink>>

NextResolve ==
    \/ HlsStreamingData
    \/ FromHlsMaster
    \/ DashStreamingData

\* the resolution of the manifest url, for every stream set and hardsub argument
SpecResolve == InitResolve /\ [][NextResolve]_vars

----------------------------------------------------------------------------
(* Strings: str::replace and u32::to_string *)

RECURSIVE Replace(_, _, _)
\* s.replace(pat, to): every non-overlapping match of pat, left to right
Replace(s, pat, to) ==
    IF Len(s) < Len(pat) THEN s
    ELSE IF SubSeq(s, 1, Len(pat)) = pat
         THEN to \o Replace(SubSeq(s, Len(pat) + 1, Len(s)), pat, to)
         ELSE SubSeq(s, 1, 1) \o Replace(SubSeq(s, 2, Len(s)), pat, to)

RECURSIVE Decimal(_)
\* number.to_string(): base 10, no sign, no leading zeros
Decimal(n) ==
    IF n < 10 THEN SubSeq("0123456789", n + 1, n + 1)
    ELSE Decimal(n \div 10) \o SubSeq("0123456789", (n % 10) + 1, (n % 10) + 1)

----------------------------------------------------------------------------
(* VariantData::from_mpeg_mpd_representations, lines 299-358.  The playback *)
(* metadata (resolution, bandwidth, fps, codecs: lines 307-330) is passed    *)
(* through with defaults and is left out; the addressing data is modelled.   *)
(* Durations, repeat counts and start numbers are kept far below 2^31, so    *)
(* the `as u32` / `as usize` casts of lines 344-353 change nothing here.     *)

MaxTimeline == 2

MaxRepeat == 2

Durations == {10, 20}

\* dash_mpd::S: d and the optional repeat count r
TimelinePairs == [d : Durations, r : Option(0..MaxRepeat)]

Timelines == SeqsUpTo(TimelinePairs, MaxTimeline)

StartNumbers == {1, 9}

InitTemplate == "init-$RepresentationID$.mp4"

MediaTemplate == "$RepresentationID$/seg-$Number$.m4s"

RepeatOf(x, n) == [i \in 1..n |-> x]

RECURSIVE ExpandTimeline_NoPlusOne(_)
\* mutant: take(r) instead of take(r + 1)
ExpandTimeline_NoPlusOne(tl) ==
    IF tl = <<>> THEN <<>>
    ELSE RepeatOf(Head(tl).d, IF IsSome(Head(tl).r) THEN Head(tl).r[1] ELSE 0)
            \o ExpandTimeline_NoPlusOne(Tail(tl))

RECURSIVE ExpandTimeline(_)
\* lines 345-356: flat_map(|s| repeat(s.d).take(s.r.unwrap_or_default() + 1))
ExpandTimeline(tl) ==
    IF tl = <<>> THEN <<>>
    ELSE RepeatOf(Head(tl).d, (IF IsSome(Head(tl).r) THEN Head(tl).r[1] ELSE 0) + 1)
            \o ExpandTimeline(Tail(tl))

\* lines 331-357: the VariantDataUrl::MpegDash of one representation; the
\* fields are evaluated in the order written, the first missing one panics
RepresentationVariant(t, rep) ==
    IF ~IsSome(rep.id) THEN Panic("dash representation id")
    ELSE IF rep.BaseURL = <<>> THEN Panic("dash base url")
    ELSE IF ~IsSome(t.initialization) THEN Panic("dash initialization url")
    ELSE IF ~IsSome(t.media) THEN Panic("dash media url")
    ELSE IF ~IsSome(t.startNumber) THEN Panic("dash start number")
    ELSE IF ~IsSome(t.SegmentTimeline) THEN Panic("dash segment timeline")
    ELSE Ok([url |-> [mode      |-> "MpegDash",
                      id        |-> rep.id[1],
                      base      |-> rep.BaseURL[1].base,
                      init      |-> t.initialization[1],
                      fragments |-> t.media[1],
                      start     |-> t.startNumber[1],
                      lengths   |-> ExpandTimeline(t.SegmentTimeline[1])]])

\* lines 304-402: one VariantData per representation, in order
FromMpegMpdRepresentations(t, reps) ==
    LET bad == {i \in 1..Len(reps) : RepresentationVariant(t, reps[i]).tag = "Panic"}
    IN  IF bad # {}
        THEN RepresentationVariant(t, reps[CHOOSE i \in bad : \A j \in bad : i <= j])
        ELSE Ok([i \in 1..Len(reps) |-> RepresentationVariant(t, reps[i]).value])

----------------------------------------------------------------------------
(* VariantData::dash_segments, lines 482-518.  The u32 sum of line 505 is   *)
(* far from overflowing for the start numbers of the model.                 *)

\* the VariantSegment without its executor; length in milliseconds
VariantSegment(k, u, l) == [key |-> k, url |-> u, length |-> l]

\* mutant: the numbering begins one after the start number
DashMediaNumbers_FromNext(start, lengths) ==
    [i \in 1..(Len(lengths) + 1) |-> start + i]

\* line 505: the numbers of the range start..lengths.len() + start + 1
DashMediaNumbers(start, lengths) ==
    [i \in 1..(Len(lengths) + start + 1 - start) |-> start + i - 1]

DashSegments(v) ==
    IF v.url.mode # "MpegDash" THEN ErrInternal("variant url should be dash")
    ELSE LET u == v.url
             numbers == DashMediaNumbers(u.start, u.lengths)
             first == VariantSegment(None,
                          u.base \o Replace(u.init, "$RepresentationID$", u.id), 0)
             media(i) ==
                 VariantSegment(None,
                     u.base \o Replace(Replace(u.fragments, "$Number$", Decimal(numbers[i])),
                                       "$RepresentationID$", u.id),
                     \* lengths.get(i).map_or(0, ..) with the 0-based i of enumerate()
                     IF i <= Len(u.lengths) THEN u.lengths[i] ELSE 0)
         IN  Ok(<<first>> \o [i \in 1..Len(numbers) |-> media(i)])

----------------------------------------------------------------------------
(* from_mpeg_mpd_representations on one adaptation set, then segments() on  *)
(* one of the variants it gave                                              *)

Representation(id) == [id |-> Some(id), BaseURL |-> <<[base |-> "https://cdn/"]>>]

FullTemplates ==
    [initialization  : {Some(InitTemplate)},
     media           : {Some(MediaTemplate)},
     startNumber     : {Some(n) : n \in StartNumbers},
     SegmentTimeline : {Some(tl) : tl \in Timelines}]

InitRepresentations ==
    /\ op = "from_mpeg_mpd_representations"
    /\ pc = "start"
    /\ variants = <<>>
    /\ hardsub = None
    /\ requests = <<>>
    /\ response = NoResponse
    /\ result = NoResult
    /\ \E t \in FullTemplates,
          reps \in {<<Representation("v1")>>, <<Representation("v1"), Representation("v2")>>} :
            adaption = Some([SegmentTemplate |-> Some(t), representations |-> reps])
    /\ variant = None
    /\ playlist = <<>>
    /\ segments = <<>>
    /\ key = None
    /\ segment = None
    /\ sink = <<>>

RunFromMpegMpdRepresentations ==
    /\ op = "from_mpeg_mpd_representations"
    /\ pc = "start"
    /\ result' = FromMpegMpdRepresentations(adaption[1].SegmentTemplate[1],
                                            adaption[1].representations)
    /\ pc' = "returned"
    /\ UNCHANGED <<op, variants, hardsub, requests, response, adaption, variant,
                   playlist, segments, key, segment, sink>>

\* segments() on one VariantData of the list: lines 406-413 dispatch on the
\* url's mode, and dash_segments has no await
RunDashSegments ==
    /\ op = "from_mpeg_mpd_representations"
    /\ pc = "returned"
    /\ result.tag = "Ok"
    /\ \E i \in 1..Len(result.value) :
         /\ result.value[i].url.mode = "MpegDash"
         /\ variant' = Some(result.value[i])
         /\ result' = DashSegments(result.value[i])
    /\ op' = "segments"
    /\ pc' = "done"
    /\ UNCHANGED <<variants, hardsub, requests, response, adaption,
                   playlist, segments, key, segment, sink>>

NextRepresentations ==
    \/ RunFromMpegMpdRepresentations
    \/ RunDashSegments

SpecRepresentations == InitRepresentations /\ [][NextRepresentations]_vars

----------------------------------------------------------------------------
(* Stream::dash_streaming_data after its await, lines 146-183 *)

MaxRepresentations == 2

\* dash_mpd::Representation: id and the BaseURL list, each possibly missing
Representations ==
    [id : Option({"v1"}), BaseURL : {<<>>, <<[base |-> "https://cdn/"]>>}]

\* dash_mpd::SegmentTemplate: every field optional
SegmentTemplates ==
    [initialization  : Option({InitTemplate}),
     media           : Option({MediaTemplate}),
     startNumber     : Option({1}),
     SegmentTimeline : Option({<<>>, <<[d |-> 10, r |-> Some(2)], [d |-> 20, r |-> None]>>})]

\* dash_mpd::AdaptationSet, the fields the code reads, with up to n representations
Adaptions(n) ==
    [maxWidth        : Option({1920}),
     maxHeight       : Option({1080}),
     SegmentTemplate : Option(SegmentTemplates),
     representations : SeqsUpTo(Representations, n)]

\* an adaptation set with nothing missing
WellFormed(a) ==
    /\ IsSome(a.SegmentTemplate)
    /\ \A f \in {"initialization", "media", "startNumber", "SegmentTimeline"} :
          IsSome(a.SegmentTemplate[1][f])
    /\ \A i \in 1..Len(a.representations) :
          IsSome(a.representations[i].id) /\ a.representations[i].BaseURL # <<>>

\* the adaptation sets of a period: none, one, or a well-formed one and then any
AdaptionLists(n) ==
    {<<>>} \cup {<<a>> : a \in Adaptions(n)}
           \cup {<<g, a>> : g \in {b \in Adaptions(1) : WellFormed(b) /\ Len(b.representations) = 1
                                                        /\ IsSome(b.maxHeight)},
                            a \in Adaptions(n)}

\* the parsed manifest: no period at all, or one period
MPDs(n) ==
    {[periods |-> <<>>]} \cup {[periods |-> <<[adaptations |-> as]>>] : as \in AdaptionLists(n)}

MpdResponses(n) ==
    {FetchFailed, Bytes("not a manifest", None)}
        \cup {Bytes("<MPD>", Some(m)) : m \in MPDs(n)}

RECURSIVE DashAdaptions(_, _, _)
\* lines 161-183: the loop over the adaptation sets of the first period
DashAdaptions(adaptions, video, audio) ==
    IF adaptions = <<>> THEN Ok([video |-> video, audio |-> audio])
    ELSE LET a == Head(adaptions) IN
         IF ~IsSome(a.SegmentTemplate) THEN Panic("dash segment template")
         ELSE LET r == FromMpegMpdRepresentations(a.SegmentTemplate[1], a.representations)
              IN  IF r.tag # "Ok" THEN r
                  ELSE IF IsSome(a.maxWidth) \/ IsSome(a.maxHeight)
                       THEN DashAdaptions(Tail(adaptions), video \o r.value, audio)
                       ELSE DashAdaptions(Tail(adaptions), video, audio \o r.value)

\* lines 146-183
DashStreamingDataResult(url, resp) ==
    IF resp.tag = "Err" THEN ErrRequest(url)
    ELSE IF ~IsSome(resp.parsed) THEN ErrDecode("parse error", resp.raw, url)
    ELSE IF resp.parsed[1].periods = <<>>
         THEN Panic("index out of bounds: the len is 0 but the index is 0")
         ELSE DashAdaptions(resp.parsed[1].periods[1].adaptations, <<>>, <<>>)

InitDash ==
    /\ op = "none"
    /\ pc = "start"
    /\ variants \in {m \in VariantMaps : DOMAIN m = {""}}
    /\ hardsub = None
    /\ requests = <<>>
    /\ Idle

\* dash_streaming_data after the await of line 146
DashManifest ==
    /\ pc = "dash_mpd"
    /\ \E resp \in MpdResponses(MaxRepresentations) :
         /\ response' = resp
         /\ result' = DashStreamingDataResult(requests[Len(requests)], resp)
    /\ pc' = "done"
    /\ UNCHANGED <<op, variants, hardsub, requests, adaption, variant, playlist,
                   segments, key, segment, sink>>

NextDash ==
    \/ DashStreamingData
    \/ DashManifest

\* dash_streaming_data as a whole, on a stream set with the "" key only
SpecDash == InitDash /\ [][NextDash]_vars

----------------------------------------------------------------------------
(* VariantData::hls_segments, lines 416-463.  Byte strings are sequences of *)
(* numbers 0..255; a String is its UTF-8 bytes, so as_bytes() changes       *)
(* nothing of the representation.                                           *)

MaxEntries == 4

\* the key and iv size of Aes128CbcDec (line 14): 16 bytes
BlockSize == 16

ConstBytes(n, b) == [i \in 1..n |-> b]

KeyUriA == "https://hls/keyA"

KeyUriB == "https://hls/keyB"

\* what the key server holds under each uri: 16 bytes
KeyFile(uri) ==
    IF uri = KeyUriA THEN ConstBytes(BlockSize, 1) ELSE ConstBytes(BlockSize, 2)

\* an IV attribute of 16 bytes, and the usual 0x.. hexadecimal text of 34
IvText == [i \in 1..BlockSize |-> 48 + (i % 10)]

IvHexText == <<48, 120>> \o ConstBytes(2 * BlockSize, 48)

\* m3u8_rs::Key as the code reads it: uri and iv, both optional.  None: the
\* entry has no key block; a block without uri is e.g. METHOD=NONE
KeyBlocks ==
    { None,
      Some([uri |-> None, iv |-> None]),
      Some([uri |-> Some(KeyUriA), iv |-> None]),
      Some([uri |-> Some(KeyUriA), iv |-> Some(IvText)]),
      Some([uri |-> Some(KeyUriB), iv |-> Some(<<>>)]),
      Some([uri |-> Some(KeyUriB), iv |-> Some(IvHexText)]) }

\* media_playlist.segments: entry i has its own uri, a duration and a key block
MediaPlaylists ==
    { [i \in 1..Len(kb) |-> [key |-> kb[i], uri |-> "seg-" \o Decimal(i) \o ".ts",
                             duration |-> 4000]] :
        kb \in SeqsUpTo(KeyBlocks, MaxEntries) }

MediaResponses ==
    {FetchFailed, Bytes("not a playlist", None)}
        \cup {Bytes("#EXTM3U media", Some(m)) : m \in MediaPlaylists}

HasKeyUri(entry) == IsSome(entry.key) /\ IsSome(entry.key[1].uri)

\* mutant: the raw key is the iv whatever the key block says
HlsIv_AlwaysKey(raw_key, k) == raw_key

\* lines 443-448: the iv of the decryptor
HlsIv(raw_key, k) ==
    LET temp_iv == IF IsSome(k.iv) THEN k.iv[1] ELSE <<>>
    IN  IF temp_iv # <<>> THEN temp_iv ELSE raw_key

\* line 450: Aes128CbcDec::new(raw_key.as_slice().into(), iv.into()); each
\* into() panics unless the slice is BlockSize long
NewDecryptor(raw_key, iv) ==
    IF Len(raw_key) # BlockSize \/ Len(iv) # BlockSize
    THEN Panic("slice length mismatch")
    ELSE Ok([key |-> raw_key, iv |-> iv])

RECURSIVE HlsLoop_KeyPerEntry(_, _, _)
\* mutant: the key is reset after each segment instead of persisting
HlsLoop_KeyPerEntry(pl, segs, k) ==
    IF Len(segs) = Len(pl) THEN [tag |-> "done", segments |-> segs, key |-> k]
    ELSE LET entry == pl[Len(segs) + 1] IN
         IF HasKeyUri(entry) THEN [tag |-> "key", segments |-> segs, key |-> k]
         ELSE HlsLoop_KeyPerEntry(pl,
                  Append(segs, VariantSegment(k, entry.uri, entry.duration)), None)

RECURSIVE HlsLoop_NoUriResets(_, _, _)
\* mutant: a key block without a uri clears the current key
HlsLoop_NoUriResets(pl, segs, k) ==
    IF Len(segs) = Len(pl) THEN [tag |-> "done", segments |-> segs, key |-> k]
    ELSE LET entry == pl[Len(segs) + 1]
             kept == IF IsSome(entry.key) THEN None ELSE k
         IN  IF HasKeyUri(entry) THEN [tag |-> "key", segments |-> segs, key |-> k]
             ELSE HlsLoop_NoUriResets(pl,
                      Append(segs, VariantSegment(kept, entry.uri, entry.duration)), kept)

RECURSIVE HlsLoop(_, _, _)
\* lines 438-460 from one await to the next: entries are pushed with a clone of
\* the current key until one needs its key fetched (line 441) or none is left
HlsLoop(pl, segs, k) ==
    IF Len(segs) = Len(pl) THEN [tag |-> "done", segments |-> segs, key |-> k]
    ELSE LET entry == pl[Len(segs) + 1] IN
         IF HasKeyUri(entry) THEN [tag |-> "key", segments |-> segs, key |-> k]
         ELSE HlsLoop(pl, Append(segs, VariantSegment(k, entry.uri, entry.duration)), k)

MediaUrl == "https://hls/v/media.m3u8"

InitHls ==
    /\ op = "segments"
    /\ pc = "start"
    /\ variants = <<>>
    /\ hardsub = None
    /\ requests = <<>>
    /\ response = NoResponse
    /\ result = NoResult
    /\ adaption = None
    /\ variant = Some([url |-> [mode |-> "Hls", url |-> MediaUrl]])
    /\ playlist = <<>>
    /\ segments = <<>>
    /\ key = None
    /\ segment = None
    /\ sink = <<>>

\* segments() on an Hls variant up to the await of line 427
HlsSegments ==
    /\ op = "segments"
    /\ pc = "start"
    /\ variant[1].url.mode = "Hls"
    /\ requests' = Append(requests, variant[1].url.url)
    /\ pc' = "hls_playlist"
    /\ UNCHANGED <<op, variants, hardsub, response, result, adaption, variant,
                   playlist, segments, key, segment, sink>>

\* the loop state after running it from (pl, segs, k) to the next await
HlsContinue(pl, segs, k) ==
    LET l == HlsLoop(pl, segs, k) IN
    /\ segments' = l.segments
    /\ key' = l.key
    /\ IF l.tag = "done"
       THEN /\ result' = Ok(l.segments)
            /\ pc' = "done"
            /\ requests' = requests
       ELSE /\ result' = result
            /\ pc' = "hls_key"
            /\ requests' = Append(requests, pl[Len(l.segments) + 1].key[1].uri[1])

\* lines 427-438: the media playlist arrives
HlsPlaylist ==
    /\ pc = "hls_playlist"
    /\ \E resp \in MediaResponses :
         /\ response' = resp
         /\ IF resp.tag = "Err" \/ ~IsSome(resp.parsed)
            THEN /\ result' = IF resp.tag = "Err" THEN ErrRequest(MediaUrl)
                               ELSE ErrDecode("parse error", resp.raw, MediaUrl)
                 /\ pc' = "done"
                 /\ UNCHANGED <<playlist, segments, key, requests>>
            ELSE /\ playlist' = resp.parsed[1]
                 /\ HlsContinue(resp.parsed[1], <<>>, None)
    /\ UNCHANGED <<op, variants, hardsub, adaption, variant, segment, sink>>

\* mutant: a failed key fetch hands back the segments built before it
KeyFetchFailed_Partial(url, segs) == Ok(segs)

\* line 441: `?` on the key request returns its error from hls_segments; the
\* local `segments` is dropped with the frame
KeyFetchFailed(url, segs) == ErrRequest(url)

\* lines 441-459: the key of entry Len(segments) + 1 arrives (or does not)
HlsKey ==
    /\ pc = "hls_key"
    /\ LET entry == playlist[Len(segments) + 1]
           k == entry.key[1]
       IN  \E resp \in {FetchFailed, Bytes(KeyFile(k.uri[1]), None)} :
             /\ response' = resp
             /\ IF resp.tag = "Err"
                THEN /\ result' = KeyFetchFailed(k.uri[1], segments)
                     /\ pc' = "done"
                     /\ UNCHANGED <<segments, key, requests>>
                ELSE LET d == NewDecryptor(resp.raw, HlsIv(resp.raw, k)) IN
                     IF d.tag = "Panic"
                     THEN /\ result' = d
                          /\ pc' = "done"
                          /\ UNCHANGED <<segments, key, requests>>
                     ELSE HlsContinue(playlist,
                              Append(segments,
                                  VariantSegment(Some(d.value), entry.uri, entry.duration)),
                              Some(d.value))
    /\ UNCHANGED <<op, variants, hardsub, adaption, variant, playlist, segment, sink>>

\* lines 427 and 441: the caller drops the future while it is suspended at one
\* of its awaits; nothing is returned and no further request is made
HlsDropped ==
    /\ pc \in {"hls_playlist", "hls_key"}
    /\ pc' = "dropped"
    /\ UNCHANGED <<op, variants, hardsub, requests, response, result, adaption,
                   variant, playlist, segments, key, segment, sink>>

NextHls ==
    \/ HlsSegments
    \/ HlsPlaylist
    \/ HlsKey
    \/ HlsDropped

SpecHls == InitHls /\ [][NextHls]_vars

----------------------------------------------------------------------------
(* VariantSegment::decrypt, lines 543-560.  The AES block function is not   *)
(* part of this file: a keyed, invertible substitution of each byte stands  *)
(* in for it.  The CBC chaining over 16-byte blocks, the in-place           *)
(* decryption, the refusal of a buffer that is not whole blocks and the     *)
(* PKCS7 unpadding are those of decrypt_padded_mut::<Pkcs7>.                *)

\* the byte before position i in the chain: the iv, then the ciphertext
Chained(iv, cipher, i) == IF i <= BlockSize THEN iv[i] ELSE cipher[i - BlockSize]

KeyByte(d, i) == d.key[((i - 1) % BlockSize) + 1]

\* decryption of whole blocks
CbcDecrypt(d, cipher) ==
    [i \in 1..Len(cipher) |-> (512 + cipher[i] - KeyByte(d, i) - Chained(d.iv, cipher, i)) % 256]

\* Pkcs7 unpadding of whole blocks: the length of the data, or -1
UnpaddedLen(buf) ==
    IF buf = <<>> THEN -1
    ELSE LET n == buf[Len(buf)] IN
         IF n = 0 \/ n > BlockSize \/ \E i \in (Len(buf) - n + 1)..Len(buf) : buf[i] # n
         THEN -1
         ELSE Len(buf) - n

\* mutant: the error carries the buffer as it is after decrypting in place
DecodeErrorContent_After(before, after) == after

\* lines 548 and 553: the copy made before decrypting is what the error carries
DecodeErrorContent(before, after) == before

\* decrypt(segment_bytes, key): what it returns
Decrypt(segment_bytes, k) ==
    IF ~IsSome(k) THEN Ok(segment_bytes)
    ELSE IF Len(segment_bytes) % BlockSize # 0
    THEN ErrDecode("unpad error", DecodeErrorContent(segment_bytes, segment_bytes), "n/a")
    ELSE LET buf == CbcDecrypt(k[1], segment_bytes)
             n == UnpaddedLen(buf)
         IN  IF n < 0
             THEN ErrDecode("unpad error", DecodeErrorContent(segment_bytes, buf), "n/a")
             ELSE Ok(SubSeq(buf, 1, n))

----------------------------------------------------------------------------
(* VariantSegment::write_to, lines 563-575 *)

\* the encryption that decrypt undoes, and the padding, to make segment bodies
CbcEncrypt(d, plain) ==
    LET c[i \in 1..Len(plain)] ==
            (plain[i] + KeyByte(d, i) + (IF i <= BlockSize THEN d.iv[i] ELSE c[i - BlockSize])) % 256
    IN  c

Pkcs7Pad(plain) ==
    LET n == BlockSize - (Len(plain) % BlockSize) IN plain \o ConstBytes(n, n)

PlainLengths == {0, 3, BlockSize}

Plains == {[i \in 1..n |-> 64 + i] : n \in PlainLengths}

\* the decryptors hls_segments builds for the key blocks of the playlists above
SegmentKeys ==
    { [key |-> KeyFile(KeyUriA), iv |-> KeyFile(KeyUriA)],
      [key |-> KeyFile(KeyUriB), iv |-> IvText] }

Ciphertexts == {CbcEncrypt(d, Pkcs7Pad(p)) : d \in SegmentKeys, p \in Plains}

\* what the segment url may hold: plain data, a well-formed ciphertext, one
\* with its last byte damaged, one cut short by a byte
SegmentBodies ==
    Plains \cup Ciphertexts
        \cup {[c EXCEPT ![Len(c)] = (c[Len(c)] + 1) % 256] : c \in Ciphertexts}
        \cup {SubSeq(c, 1, Len(c) - 1) : c \in Ciphertexts}

SegmentUrl == "https://cdn/seg-1.ts"

InitWrite ==
    /\ op = "write_to"
    /\ pc = "start"
    /\ variants = <<>>
    /\ hardsub = None
    /\ requests = <<>>
    /\ response = NoResponse
    /\ result = NoResult
    /\ adaption = None
    /\ variant = None
    /\ playlist = <<>>
    /\ segments = <<>>
    /\ key = None
    /\ segment \in {Some(VariantSegment(k, SegmentUrl, 4000)) : k \in Option(SegmentKeys)}
    /\ sink = <<>>

\* write_to up to the await of line 564
WriteToRequest ==
    /\ op = "write_to"
    /\ pc = "start"
    /\ requests' = Append(requests, segment[1].url)
    /\ pc' = "write_to"
    /\ UNCHANGED <<op, variants, hardsub, response, result, adaption, variant,
                   playlist, segments, key, segment, sink>>

\* lines 564-574: the segment arrives, is decrypted and given to w.write().
\* Write::write takes any number n <= buf.len() of bytes and returns Ok(n), or
\* takes none and returns an error; the code drops n.
WriteTo ==
    /\ pc = "write_to"
    /\ \E resp \in {FetchFailed} \cup {Bytes(b, None) : b \in SegmentBodies} :
         /\ response' = resp
         /\ IF resp.tag = "Err"
            THEN result' = ErrRequest(segment[1].url) /\ sink' = sink
            ELSE LET d == Decrypt(resp.raw, segment[1].key) IN
                 IF d.tag = "Err"
                 THEN result' = d /\ sink' = sink
                 ELSE \/ \E n \in 0..Len(d.value) :
                           /\ sink' = sink \o SubSeq(d.value, 1, n)
                           /\ result' = Ok(<<>>)
                      \/ /\ sink' = sink
                         /\ result' = ErrInput("write failed")
    /\ pc' = "done"
    /\ UNCHANGED <<op, variants, hardsub, requests, adaption, variant, playlist,
                   segments, key, segment>>

NextWrite ==
    \/ WriteToRequest
    \/ WriteTo

SpecWrite == InitWrite /\ [][NextWrite]_vars

----------------------------------------------------------------------------
(* Several write_to calls on the segments of one list, lines 454-459 and    *)
(* 563-575.  Each call is cut at its await (line 564), so calls interleave; *)
(* they run on any of the list's segments, in any order, a segment more     *)
(* than once.  Here every call has a Vec<u8> as its writer, which takes the *)
(* whole buffer.                                                            *)

MaxCalls == 2

Calls == 1..MaxCalls

\* two entries that follow the playlist's last key block
ListPlaylist ==
    [i \in 1..2 |-> [key |-> None, uri |-> "seg-" \o Decimal(i) \o ".ts", duration |-> 4000]]

\* what the two segments hold before encryption: less than a block, and a
\* whole block (two blocks once padded)
ListPlains == <<[j \in 1..3 |-> 64 + j], [j \in 1..BlockSize |-> 96 + j]>>

\* what the url of segment i may hold under key k: the data itself when there
\* is no key, else its ciphertext, whole or with the last byte damaged
ListBodies(i, k) ==
    IF ~IsSome(k) THEN {ListPlains[i]}
    ELSE LET c == CbcEncrypt(k[1], Pkcs7Pad(ListPlains[i])) IN
         {c, [c EXCEPT ![Len(c)] = (c[Len(c)] + 1) % 256]}

\* lines 549-551: the decryptor that did the decrypting has moved on, its
\* chaining value is the last ciphertext block it saw
DecryptorAfter(k, cipher) ==
    IF ~IsSome(k) \/ Len(cipher) < BlockSize \/ Len(cipher) % BlockSize # 0 THEN k
    ELSE Some([k[1] EXCEPT !.iv = SubSeq(cipher, Len(cipher) - BlockSize + 1, Len(cipher))])

\* mutant: decrypt works on the segment's own decryptor
StoredKey_InPlace(k, used) == used

\* line 568: decrypt is given self.key.clone() and consumes it; self.key is
\* what it was
StoredKey(k, used) == k

InitList ==
    /\ op = "write_to"
    /\ pc = [t \in Calls |-> "start"]
    /\ variants = <<>>
    /\ hardsub = None
    /\ requests = <<>>
    /\ response = [t \in Calls |-> NoResponse]
    /\ result = [t \in Calls |-> NoResult]
    /\ adaption = None
    /\ variant = None
    /\ playlist = ListPlaylist
    /\ key \in Option(SegmentKeys)
    /\ segments = HlsLoop(ListPlaylist, <<>>, key).segments
    /\ segment = [t \in Calls |-> None]
    /\ sink = [t \in Calls |-> <<>>]

\* call t is made on segment i and runs up to the await of line 564
ListWriteToRequest(t, i) ==
    /\ pc[t] = "start"
    /\ segment' = [segment EXCEPT ![t] = Some(i)]
    /\ requests' = Append(requests, segments[i].url)
    /\ pc' = [pc EXCEPT ![t] = "write_to"]
    /\ UNCHANGED <<op, variants, hardsub, response, result, adaption, variant,
                   playlist, segments, key, sink>>

\* lines 564-574 of call t: the bytes arrive, are decrypted with a clone of the
\* segment's key and written
ListWriteTo(t) ==
    /\ pc[t] = "write_to"
    /\ LET i == segment[t][1] IN
       \E resp \in {FetchFailed} \cup {Bytes(b, None) : b \in ListBodies(i, key)} :
         /\ response' = [response EXCEPT ![t] = resp]
         /\ IF resp.tag = "Err"
            THEN /\ result' = [result EXCEPT ![t] = ErrRequest(segments[i].url)]
                 /\ UNCHANGED <<sink, segments>>
            ELSE LET d == Decrypt(resp.raw, segments[i].key)
                     used == DecryptorAfter(segments[i].key, resp.raw)
                 IN  /\ segments' = [segments EXCEPT
                                        ![i].key = StoredKey(segments[i].key, used)]
                     /\ IF d.tag = "Err"
                        THEN /\ result' = [result EXCEPT ![t] = d]
                             /\ sink' = sink
                        ELSE /\ result' = [result EXCEPT ![t] = Ok(<<>>)]
                             /\ sink' = [sink EXCEPT ![t] = sink[t] \o d.value]
    /\ pc' = [pc EXCEPT ![t] = "done"]
    /\ UNCHANGED <<op, variants, hardsub, requests, adaption, variant, playlist,
                   key, segment>>

NextList ==
    \/ \E t \in Calls, i \in 1..2 : ListWriteToRequest(t, i)
    \/ \E t \in Calls : ListWriteTo(t)

SpecList == InitList /\ [][NextList]_vars

----------------------------------------------------------------------------
(* Claims about the DASH addressing data and segment list                  *)
(* (SpecRepresentations)                                                    *)

\* the timeline the adaptation set's segment template carries
GivenTimeline == adaption[1].SegmentTemplate[1].SegmentTimeline[1]

\* the repeat count of a timeline pair, 0 when it has none
RepeatCount(s) == IF IsSome(s.r) THEN s.r[1] ELSE 0

RECURSIVE EntriesBefore(_, _)
\* how many entries the pairs before pair j contribute: the sum of r + 1
EntriesBefore(tl, j) ==
    IF j <= 1 THEN 0 ELSE EntriesBefore(tl, j - 1) + RepeatCount(tl[j - 1]) + 1

\* C1: segments() on a DASH variant returns exactly 1 + len(lengths) segments:
\* the zero-duration init segment, then one media segment per entry of lengths.
C1_DashSegmentCount ==
    (op = "segments" /\ pc = "done" /\ IsSome(variant)) =>
        /\ result.tag = "Ok"
        /\ Len(result.value) = 1 + Len(variant[1].url.lengths)
        /\ result.value[1].length = 0

\* C8: every variant from_mpeg_mpd_representations returns has as lengths the
\* flat expansion of the timeline: pair j contributes RepeatCount + 1
\* consecutive entries equal to its d, in timeline order, and nothing else is
\* in the list; [(10,2),(20,0)] gives [10,10,10,20].
C8_TimelineExpansion ==
    (op = "from_mpeg_mpd_representations" /\ pc = "returned") =>
        /\ result.tag = "Ok"
        /\ \A i \in 1..Len(result.value) :
              LET lengths == result.value[i].url.lengths
                  tl == GivenTimeline
              IN  /\ Len(lengths) = EntriesBefore(tl, Len(tl) + 1)
                  /\ \A j \in 1..Len(tl) :
                        \A k \in 1..(RepeatCount(tl[j]) + 1) :
                            lengths[EntriesBefore(tl, j) + k] = tl[j].d
                  /\ tl = <<[d |-> 10, r |-> Some(2)], [d |-> 20, r |-> Some(0)]>>
                        => lengths = <<10, 10, 10, 20>>

\* C8 witness: the timeline [(10,2),(20,none)] has been expanded to four entries
C8_Witness ==
    /\ op = "from_mpeg_mpd_representations" /\ pc = "returned"
    /\ GivenTimeline = <<[d |-> 10, r |-> Some(2)], [d |-> 20, r |-> None]>>
    /\ result.tag = "Ok"
    /\ result.value[1].url.lengths = <<10, 10, 10, 20>>

\* C11: in the list segments() returns for a DASH variant, the element right
\* after the init segment plus i (i from 0 below len(lengths)) is media segment
\* start + i: its url is base + the media template with $Number$ replaced by
\* the decimal text of start + i and $RepresentationID$ by the id, its length
\* is lengths[i] and its key is None; the init segment's url is base + the init
\* template with $RepresentationID$ replaced.  (Templates of the model:
\* "init-$RepresentationID$.mp4" and "$RepresentationID$/seg-$Number$.m4s".)
C11_MediaSegments ==
    (op = "segments" /\ pc = "done" /\ IsSome(variant)) =>
        LET u == variant[1].url IN
        /\ result.tag = "Ok"
        /\ result.value[1].url = u.base \o "init-" \o u.id \o ".mp4"
        /\ \A i \in 0..(Len(u.lengths) - 1) :
              /\ i + 2 <= Len(result.value)
              /\ result.value[i + 2].url =
                     u.base \o u.id \o "/seg-" \o ToString(u.start + i) \o ".m4s"
              /\ result.value[i + 2].length = u.lengths[i + 1]
              /\ result.value[i + 2].key = None

\* C11 witness: start number 9 and at least two lengths, so the second media
\* segment is number 10
C11_Witness ==
    /\ op = "segments" /\ pc = "done" /\ IsSome(variant)
    /\ variant[1].url.start = 9
    /\ variant[1].url.id = "v2"
    /\ variant[1].url.lengths = <<10, 20, 20>>
    /\ result.tag = "Ok"
    /\ result.value[3].url = "https://cdn/v2/seg-10.m4s"
    /\ result.value[3].length = 20

----------------------------------------------------------------------------
(* Claims about the DASH manifest (SpecDash) *)

\* an addressing field the code requires is structurally absent from the
\* manifest: the first period, a segment template or one of its four fields,
\* a representation's id or its first base url
StructurallyAbsent(m) ==
    \/ m.periods = <<>>
    \/ \E i \in 1..Len(m.periods[1].adaptations) : ~WellFormed(m.periods[1].adaptations[i])

\* C10: a manifest with a required addressing field absent makes
\* dash_streaming_data return an error value: it neither succeeds nor ends any
\* other way (a panic unwinding through the caller).
C10_AbsenceIsAnError ==
    (op = "dash_streaming_data" /\ pc = "done" /\ IsSome(response.parsed)
        /\ StructurallyAbsent(response.parsed[1])) => result.tag = "Err"

----------------------------------------------------------------------------
(* Claims about the HLS segment list (SpecHls) *)

\* the entries up to i that carry a key block with a uri
KeyedUpTo(i) == {j \in 1..i : HasKeyUri(playlist[j])}

\* the last of them (there is one)
LastKeyed(i) == CHOOSE j \in KeyedUpTo(i) : \A h \in KeyedUpTo(i) : h <= j

\* the decryptor of a key block: the key file, and the block's IV or, when
\* that is missing or empty, the key file again
DecryptorOf(k) ==
    [key |-> KeyFile(k.uri[1]),
     iv  |-> IF IsSome(k.iv) /\ k.iv[1] # <<>> THEN k.iv[1] ELSE KeyFile(k.uri[1])]

\* C5: the segments emitted so far are the playlist's entries in order, each
\* with the decryptor of the most recent key block with a uri at or before it,
\* or None when there is no such block; and the list returned has one segment
\* per entry.
C5_KeyPersists ==
    /\ \A i \in 1..Len(segments) :
          /\ segments[i].url = playlist[i].uri
          /\ segments[i].key = IF KeyedUpTo(i) = {} THEN None
                                ELSE Some(DecryptorOf(playlist[LastKeyed(i)].key[1]))
    /\ (op = "segments" /\ result.tag = "Ok") =>
          (result.value = segments /\ Len(segments) = Len(playlist))

\* C5 witness: entries [no-key, keyA, no-key, keyB] came back with the key
\* states [None, keyA, keyA, keyB]
C5_Witness ==
    /\ op = "segments" /\ result.tag = "Ok"
    /\ Len(playlist) = 4
    /\ ~IsSome(playlist[1].key) /\ ~IsSome(playlist[3].key)
    /\ HasKeyUri(playlist[2]) /\ playlist[2].key[1].uri = Some(KeyUriA)
    /\ HasKeyUri(playlist[4]) /\ playlist[4].key[1].uri = Some(KeyUriB)
    /\ result.value[1].key = None
    /\ IsSome(result.value[2].key) /\ result.value[2].key[1].key = KeyFile(KeyUriA)
    /\ result.value[3].key = result.value[2].key
    /\ IsSome(result.value[4].key) /\ result.value[4].key[1].key = KeyFile(KeyUriB)

\* the requests hls_segments has made when it stands at entry Len(segments) + 1:
\* the media playlist and one per key block with a uri met so far
RequestsDue ==
    1 + Cardinality({j \in 1..Len(playlist) :
                        j <= Len(segments) + 1 /\ HasKeyUri(playlist[j])})

\* the request hls_segments was waiting for failed: the fetch, the parse of the
\* media playlist (the first request), or the fetch of a key
HlsRequestFailed ==
    \/ response.tag = "Err"
    \/ Len(requests) = 1 /\ response.tag = "Bytes" /\ ~IsSome(response.parsed)

\* C12: hls_segments is all-or-nothing.  While it is suspended, and when it is
\* dropped there, it has returned nothing.  When the fetch or the parse of the
\* media playlist or the fetch of a key fails, it returns that request's error
\* and no segment list, whatever it had built before, and it has issued each
\* request once (the failing one is the last, none is repeated).  A list is
\* returned only with one segment for every entry.
C12_AllOrNothing ==
    /\ pc \in {"start", "hls_playlist", "hls_key", "dropped"} => result = NoResult
    /\ (pc = "done" /\ HlsRequestFailed) =>
          /\ result.tag = "Err"
          /\ result.value = <<>>
          /\ result.kind = (IF response.tag = "Err" THEN "Request" ELSE "Decode")
          /\ result.url = requests[Len(requests)]
          /\ Len(requests) = RequestsDue
    /\ (pc = "done" /\ result.tag = "Ok") =>
          /\ ~HlsRequestFailed
          /\ Len(result.value) = Len(playlist)

\* C12 witness: the second key fetch failed after two segments, the first of
\* them with a fetched key, had been built; the error is all that came back
C12_Witness ==
    /\ pc = "done" /\ response.tag = "Err"
    /\ Len(segments) = 2 /\ IsSome(segments[1].key)
    /\ Len(requests) = 3
    /\ result.tag = "Err" /\ result.value = <<>>
    /\ result.url = KeyUriB

\* the entry carries a key block that names no uri
UrilessKeyBlock(entry) == IsSome(entry.key) /\ ~HasKeyUri(entry)

\* C14: an entry whose key block has no uri is emitted with the key of the
\* segment before it (None when it is the first) and causes no request: the
\* requests made are the playlist's and one per key block with a uri.  So in
\* the segments emitted, none after a segment with a key has key None.
C14_UrilessBlockKeepsKey ==
    /\ \A i \in 1..Len(segments) :
          UrilessKeyBlock(playlist[i]) =>
              segments[i].key = (IF i = 1 THEN None ELSE segments[i - 1].key)
    /\ \A i, j \in 1..Len(segments) :
          (i < j /\ IsSome(segments[i].key)) => IsSome(segments[j].key)
    /\ pc # "start" => Len(requests) = RequestsDue

\* C14 witness: a list came back for [keyA, block without uri, no block, ...]:
\* the second and third segment carry the first one's key and only the
\* playlist and key A were requested for them
C14_Witness ==
    /\ op = "segments" /\ pc = "done" /\ result.tag = "Ok"
    /\ Len(playlist) = 3
    /\ HasKeyUri(playlist[1]) /\ playlist[1].key[1].uri = Some(KeyUriA)
    /\ UrilessKeyBlock(playlist[2])
    /\ ~IsSome(playlist[3].key)
    /\ IsSome(result.value[1].key)
    /\ result.value[2].key = result.value[1].key
    /\ result.value[3].key = result.value[1].key
    /\ requests = <<MediaUrl, KeyUriA>>

\* C6: whenever a key block with a uri has been turned into the current key,
\* that decryptor is (fetched key bytes, the block's IV verbatim) when the
\* block has a non-empty IV and (fetched key bytes, fetched key bytes) when the
\* IV is missing or empty.
C6_IvSelection ==
    (pc \in {"hls_key", "done"} /\ result.tag \in {"None", "Ok"} /\ IsSome(key)) =>
        LET k == playlist[LastKeyed(Len(segments))].key[1] IN
        /\ response.tag = "Bytes"
        /\ key[1].key = response.raw
        /\ (IsSome(k.iv) /\ k.iv[1] # <<>>) => key[1].iv = k.iv[1]
        /\ (~IsSome(k.iv) \/ k.iv[1] = <<>>) => key[1].iv = response.raw

\* C6 witness: one list holds a segment whose decryptor has the explicit IV, one
\* whose block had no IV and one whose block had an empty IV, both with the key
\* bytes as IV
C6_Witness ==
    /\ result.tag = "Ok"
    /\ \E a, b, c \in 1..Len(segments) :
          /\ playlist[a].key = Some([uri |-> Some(KeyUriA), iv |-> Some(IvText)])
          /\ segments[a].key = Some([key |-> KeyFile(KeyUriA), iv |-> IvText])
          /\ playlist[b].key = Some([uri |-> Some(KeyUriA), iv |-> None])
          /\ segments[b].key = Some([key |-> KeyFile(KeyUriA), iv |-> KeyFile(KeyUriA)])
          /\ playlist[c].key = Some([uri |-> Some(KeyUriB), iv |-> Some(<<>>)])
          /\ segments[c].key = Some([key |-> KeyFile(KeyUriB), iv |-> KeyFile(KeyUriB)])

----------------------------------------------------------------------------
(* Claims about write_to and decrypt (SpecWrite) *)

WriteToReturned == op = "write_to" /\ pc = "done"

\* C7: when write_to returns Ok the sink holds exactly the decrypted bytes of
\* the fetched segment: the fetched bytes themselves for a segment without key,
\* the whole unpadded plaintext for a keyed one, never just a prefix.
C7_SinkGetsWholeSegment ==
    (WriteToReturned /\ result.tag = "Ok") =>
        /\ ~IsSome(segment[1].key) => sink = response.raw
        /\ IsSome(segment[1].key) =>
               \A p \in Plains :
                   response.raw = CbcEncrypt(segment[1].key[1], Pkcs7Pad(p)) => sink = p

\* C9: with a key, a segment that cannot be unpadded makes write_to return the
\* Decode error whose content is the segment as it was fetched (not the
\* buffer decrypted in place), and the sink gets nothing; a keyed segment
\* that is not whole blocks always ends so.
C9_DecodeErrorKeepsInput ==
    WriteToReturned =>
        /\ result.kind = "Decode" =>
               /\ IsSome(segment[1].key)
               /\ result.content = response.raw
               /\ result.url = "n/a"
               /\ sink = <<>>
        /\ (IsSome(segment[1].key) /\ response.tag = "Bytes"
                /\ Len(response.raw) % BlockSize # 0) => result.kind = "Decode"

\* C9 witness: a segment of whole blocks was decrypted in place, failed to
\* unpad, and the error came back
C9_Witness ==
    /\ WriteToReturned
    /\ IsSome(segment[1].key)
    /\ response.tag = "Bytes"
    /\ Len(response.raw) = BlockSize
    /\ result.kind = "Decode"
    /\ result.content = response.raw
    /\ CbcDecrypt(segment[1].key[1], response.raw) # response.raw

----------------------------------------------------------------------------
(* Claims about write_to calls on one list (SpecList) *)

\* C13: every segment of the list holds the decryptor the list was built with,
\* in the state it was built in, whatever write_to calls have run, are running
\* or are suspended; and every call that got its bytes ended as decrypting
\* those bytes alone with that decryptor ends: the same data in its writer, or
\* the same error.
C13_IndependentCipherState ==
    /\ \A i \in 1..Len(segments) : segments[i].key = key
    /\ \A t \in Calls :
          (pc[t] = "done" /\ response[t].tag = "Bytes") =>
              LET alone == Decrypt(response[t].raw, key) IN
              IF alone.tag = "Ok"
              THEN result[t] = Ok(<<>>) /\ sink[t] = alone.value
              ELSE result[t] = alone /\ sink[t] = <<>>

\* C13 witness: the first two calls both ran on the second, keyed segment,
\* both suspended before either got its bytes, and both wrote its data
C13_Witness ==
    /\ IsSome(key)
    /\ pc[1] = "done" /\ pc[2] = "done"
    /\ segment[1] = Some(2) /\ segment[2] = Some(2)
    /\ SubSeq(requests, 1, 2) = <<segments[2].url, segments[2].url>>
    /\ sink[1] = ListPlains[2] /\ sink[2] = ListPlains[2]
    /\ segments[2].key = key

----------------------------------------------------------------------------
(* Claims about the resolution of the manifest url (SpecResolve).  The     *)
(* spec's NotFound is the code's Error::Input.                             *)

HasKey(l) == l \in DOMAIN variants

HasHls(l) == HasKey(l) /\ IsSome(variants[l].adaptive_hls)

HasDash(l) == HasKey(l) /\ IsSome(variants[l].adaptive_dash)

HlsCalled == op = "hls_streaming_data"

DashCalled == op = "dash_streaming_data"

\* C2 as stated: with no hardsub locale, hls_streaming_data requests the url of
\* the first sentinel, "" then ":", whose adaptive_hls is set: the "" url when
\* both have one, the ":" url when only ":" has one (the "" key absent, or
\* present without adaptive_hls).
C2_AsStated ==
    (HlsCalled /\ hardsub = None) =>
        /\ (HasHls("") /\ HasHls(":")) => requests[1] = variants[""].adaptive_hls[1].url
        /\ (HasHls(":") /\ ~HasHls("")) =>
               /\ requests # <<>>
               /\ requests[1] = variants[":"].adaptive_hls[1].url

\* C2 amended: with no hardsub locale, hls_streaming_data uses the first
\* sentinel key, "" then ":", that is PRESENT in the stream set.  If that entry
\* has adaptive_hls its url is the one requested (so the "" url when both have
\* one, and the ":" url only when the "" key is absent); if it has none the call
\* fails with Input "no stream available", nothing is requested and the other
\* sentinel is not consulted.
C2_FirstPresentSentinel ==
    (HlsCalled /\ hardsub = None) =>
        LET first == IF HasKey("") THEN Some("")
                     ELSE IF HasKey(":") THEN Some(":") ELSE None
        IN  /\ (IsSome(first) /\ HasHls(first[1])) =>
                   /\ requests = <<variants[first[1]].adaptive_hls[1].url>>
                   /\ pc = "done" => result.kind \notin {"Input", "Internal"}
            /\ (IsSome(first) /\ ~HasHls(first[1])) =>
                   /\ requests = <<>>
                   /\ result = ErrInput("no stream available")

\* C2 witness: the "" key is present without adaptive_hls, ":" has one, and the
\* call has failed without a request
C2_Witness ==
    /\ HlsCalled /\ hardsub = None
    /\ HasKey("") /\ ~HasHls("") /\ HasHls(":")
    /\ pc = "done" /\ requests = <<>>
    /\ result = ErrInput("no stream available")

\* C3: with no hardsub locale, dash_streaming_data fails with Internal "could
\* not find supported stream" only when neither the "" key nor the ":" key
\* exists, and when the "" key is absent and ":" has adaptive_dash, the ":" url
\* is the one requested.
C3_DashSentinelFallback ==
    (DashCalled /\ hardsub = None) =>
        /\ result = ErrInternal("could not find supported stream") =>
               (~HasKey("") /\ ~HasKey(":"))
        /\ (~HasKey("") /\ HasDash(":")) =>
               requests = <<variants[":"].adaptive_dash[1].url>>

\* C4 as stated: with a hardsub locale, either call fails with NotFound "no
\* stream with hardsub locale <locale>" when the key is absent, with NotFound
\* "no stream available" when the key is present without the transport's
\* field, and requests nothing in both cases.
C4_AsStated ==
    ((HlsCalled \/ DashCalled) /\ IsSome(hardsub)) =>
        LET locale == hardsub[1]
            has == IF HlsCalled THEN HasHls(locale) ELSE HasDash(locale)
        IN  /\ ~HasKey(locale) =>
                   /\ result = ErrInput("no stream with hardsub locale " \o locale)
                   /\ requests = <<>>
            /\ (HasKey(locale) /\ ~has) =>
                   /\ result = ErrInput("no stream available")
                   /\ requests = <<>>

\* C4 amended: the same, with the message the code gives for an absent key:
\* Input "could not find any stream with hardsub locale '<locale>'".
C4_HardsubNoFallback ==
    ((HlsCalled \/ DashCalled) /\ IsSome(hardsub)) =>
        LET locale == hardsub[1]
            has == IF HlsCalled THEN HasHls(locale) ELSE HasDash(locale)
        IN  /\ ~HasKey(locale) =>
                   /\ result = ErrInput("could not find any stream with hardsub locale '"
                                            \o locale \o "'")
                   /\ requests = <<>>
            /\ (HasKey(locale) /\ ~has) =>
                   /\ result = ErrInput("no stream available")
                   /\ requests = <<>>

\* C4 witness: dash_streaming_data was asked for a locale the stream set lacks,
\* while a sentinel with adaptive_dash was there to fall back to
C4_Witness ==
    /\ DashCalled /\ hardsub = Some("fr-FR")
    /\ HasDash("")
    /\ pc = "done" /\ requests = <<>>
    /\ result.kind = "Input"

====
